---------------------------- MODULE Spec2Model ----------------------------
(***************************************************************************)
(* MCP Script Runner: the configuration manager (config.py), the script    *)
(* executor (executor.py) and the tool handlers (server.py), run by one    *)
(* asyncio event loop.  A handler is a coroutine; an action of this module *)
(* is one of its segments between two suspension points (await), so the    *)
(* segments of different requests interleave and a segment is atomic.      *)
(*                                                                         *)
(* An Optional value is a sequence of length at most one: << >> is None.   *)
(* A falsy string (None or "") is "".                                      *)
(***************************************************************************)
EXTENDS Integers, Sequences, FiniteSets, TLC

\* ------------------------------------------------------------- bounds
\* Tool calls the client sends on the connection.
MaxRequests == 2
\* Requests written to the server's stdin and not yet read by it.
MaxInbound == 1
\* Edits of the configuration file made from outside the server.
MaxEdits == 2

Ids == 1..MaxRequests

\* ---------------------------------------------------------- file system
\* os.path.exists: the paths that exist on the machine.
ExistingPaths == {".", "/work", "./scripts/hello.sh", "./scripts/slow.sh"}

\* A variant of the test below under which every path exists.
PathExistsAlways(p) == TRUE

\* os.path.exists

PathExists(p) == p \in ExistingPaths

\* Path(p).resolve(): "/loop" is a symbolic link to itself, on which resolve()
\* raises; every other path resolves (existing or not).
Resolves(p) == p # "/loop"

\* The directory a child can be started in (Popen's chdir): it must exist.
CanChdir(p) == p \in {".", "/work"}

\* --------------------------------------------------------- config.py
\* ScriptConfig: name, path, description, arguments, working_directory
\* (None is ""), timeout.
ScriptConfig(n, p, d, a, w, t) ==
    [name |-> n, path |-> p, description |-> d, arguments |-> a,
     working_directory |-> w, timeout |-> t]

\* The default of ScriptConfig.timeout.
DefaultTimeout == 300

Hello == ScriptConfig("hello", "./scripts/hello.sh", "Simple hello world script",
                      << >>, "", 30)
HelloB == ScriptConfig("hello", "./scripts/slow.sh", "hello, second edition",
                       <<"who">>, ".", DefaultTimeout)
Slow == ScriptConfig("slow", "./scripts/slow.sh", "no time to run", << >>, "", 0)
Loop == ScriptConfig("loop", "./scripts/hello.sh", "runs in /loop", << >>, "/loop", 30)
\* Registered under the key "gone"; the file gives it another name.
Gone == ScriptConfig("departed", "./scripts/hello.sh", "runs in a directory that is gone",
                     << >>, "/nonexistent", 30)
Missing == ScriptConfig("missing", "./scripts/missing.sh", "", << >>, "", 30)

NoScripts == [k \in {} |-> Hello]

\* MCPConfig: working_directory and scripts (the docker fields are never read).
MCPConfig(w, s) == [working_directory |-> w, scripts |-> s]

\* The content of the configuration file: absent, not JSON, or a JSON document.
Absent == [kind |-> "absent", data |-> MCPConfig(".", NoScripts)]
Malformed == [kind |-> "malformed", data |-> MCPConfig(".", NoScripts)]
Json(c) == [kind |-> "json", data |-> c]

FileA == Json(MCPConfig(".", [k \in {"hello"} |-> Hello]))
FileB == Json(MCPConfig("/work",
                 [k \in {"hello", "slow", "loop", "gone"} |->
                     IF k = "hello" THEN HelloB
                     ELSE IF k = "slow" THEN Slow
                     ELSE IF k = "loop" THEN Loop ELSE Gone]))
FileBadPath == Json(MCPConfig(".", [k \in {"hello", "missing"} |->
                                       IF k = "hello" THEN Hello ELSE Missing]))
FileBadDir == Json(MCPConfig("/nonexistent", [k \in {"hello"} |-> Hello]))

FileContents == {Absent, Malformed, FileA, FileB, FileBadPath, FileBadDir}

\* A variant of the validator below that accepts every path.
validate_path_skip(v) == TRUE

\* ScriptConfig.validate_path
validate_path(v) == PathExists(v)

\* MCPConfig.validate_working_directory
validate_working_directory(v) == PathExists(v)

\* MCPConfig(**config_data): the model is built only if every validator passes.
MCPConfigValid(data) ==
    /\ validate_working_directory(data.working_directory)
    /\ \A k \in DOMAIN data.scripts : validate_path(data.scripts[k].path)

\* ConfigManager._save_default_config: what it writes to the file.
_save_default_config == Json(MCPConfig(".", [k \in {"hello"} |-> Hello]))

\* A variant of the load below that never finds the file and builds the default.
load_config_default(cur, file) ==
    [raised |-> FALSE, _config |-> <<MCPConfig(".", NoScripts)>>,
     file |-> _save_default_config]

\* ConfigManager.load_config, from a manager whose _config is `cur` and a file
\* `file`: raised (the ValueError), the new _config and the file afterwards.
load_config(cur, file) ==
    IF file.kind # "absent"
    THEN IF file.kind = "json" /\ MCPConfigValid(file.data)
         THEN [raised |-> FALSE, _config |-> <<file.data>>, file |-> file]
         ELSE [raised |-> TRUE, _config |-> cur, file |-> file]
    ELSE [raised |-> FALSE, _config |-> <<MCPConfig(".", NoScripts)>>,
          file |-> _save_default_config]

\* ConfigManager.reload_config: _config is cleared, then load_config runs.
reload_config(cur, file) == load_config(<< >>, file)

\* ConfigManager.config (the property): loads when _config is None.
config(cur, file) ==
    IF cur = << >> THEN load_config(cur, file)
    ELSE [raised |-> FALSE, _config |-> cur, file |-> file]

\* A variant of the lookup below that falls back on some registered script.
get_script_config_any(c, script_name) ==
    IF script_name \in DOMAIN c.scripts THEN <<c.scripts[script_name]>>
    ELSE IF DOMAIN c.scripts # {} THEN <<c.scripts[CHOOSE k \in DOMAIN c.scripts : TRUE]>>
    ELSE << >>

\* ConfigManager.get_script_config on a loaded configuration: Optional spec.
get_script_config(c, script_name) ==
    IF script_name \in DOMAIN c.scripts THEN <<c.scripts[script_name]>> ELSE << >>

\* A variant of the listing below that leaves out scripts that cannot run.
list_scripts_runnable(c) == {k \in DOMAIN c.scripts : c.scripts[k].timeout > 0}

\* ConfigManager.list_scripts on a loaded configuration: the keys.
list_scripts(c) == DOMAIN c.scripts

\* A variant of the listing below that stops after one script.
list_available_scripts_one(c) ==
    {[key |-> k,
      name |-> c.scripts[k].name,
      description |-> c.scripts[k].description,
      path |-> c.scripts[k].path,
      arguments |-> c.scripts[k].arguments,
      timeout |-> c.scripts[k].timeout] :
        k \in {n \in list_scripts(c) : n = CHOOSE f \in list_scripts(c) : TRUE}}

\* ScriptExecutor.list_available_scripts: one block per key that looks up.
list_available_scripts(c) ==
    {[key |-> k,
      name |-> c.scripts[k].name,
      description |-> c.scripts[k].description,
      path |-> c.scripts[k].path,
      arguments |-> c.scripts[k].arguments,
      timeout |-> c.scripts[k].timeout] :
        k \in {n \in list_scripts(c) : get_script_config(c, n) # << >>}}


\* ------------------------------------------------------- executor.py
\* ScriptExecutionResult (execution_time, a wall-clock reading, is left out).
ScriptExecutionResult(exit_code, stdout, stderr, script_name) ==
    [exit_code |-> exit_code, stdout |-> stdout, stderr |-> stderr,
     script_name |-> script_name]

\* ScriptExecutionResult.success
success(result) == result.exit_code = 0

\* The directory the server process runs in: what Path(".").resolve() returns.
ServerCwd == "/srv"

\* Path(working_dir).resolve() of a path that resolves: the absolute path.
resolve(p) == IF p = "." THEN ServerCwd ELSE p

\* The directories Popen can chdir to, as absolute paths.
CwdUsable(abs) == abs \in {resolve(p) : p \in {q \in ExistingPaths : CanChdir(q)}}

\* The words a shell would split a string into (exec never does this).
Words(s) ==
    IF s = "; rm -rf /" THEN <<";", "rm", "-rf", "/">>
    ELSE IF s = "a b" THEN <<"a", "b">>
    ELSE <<s>>

RECURSIVE Flatten(_)
Flatten(ss) == IF ss = << >> THEN << >> ELSE Words(Head(ss)) \o Flatten(Tail(ss))

\* The commands a shell runs for a word list: one more per ";" in it.
Commands(ws) == 1 + Cardinality({i \in 1..Len(ws) : ws[i] = ";"})

\* A variant of the spawn below that hands the joined command line to a shell.
create_subprocess_shell(cmd, cwd) ==
    [argv |-> Flatten(cmd), cwd |-> cwd, stdin |-> "inherit", stdout |-> "pipe",
     stderr |-> "pipe", state |-> "running", returncode |-> 0,
     out |-> [stdout |-> "", stderr |-> ""], executions |-> Commands(Flatten(cmd)),
     signals |-> << >>]

\* A variant of the spawn below that leaves out cwd=: the child starts in the
\* directory the server runs in.
create_subprocess_exec_no_cwd(cmd, cwd) ==
    [argv |-> cmd, cwd |-> ServerCwd, stdin |-> "inherit", stdout |-> "pipe",
     stderr |-> "pipe", state |-> "running", returncode |-> 0,
     out |-> [stdout |-> "", stderr |-> ""], executions |-> 1, signals |-> << >>]

\* asyncio.create_subprocess_exec(*cmd, stdout=PIPE, stderr=PIPE, cwd=...): one
\* execve of cmd[0] with cmd as its argument vector; stdin is not given, so the child
\* inherits the server's; returncode is read only once state is exited or reaped;
\* signals are the signals the executor has sent it, in order.
create_subprocess_exec(cmd, cwd) ==
    [argv |-> cmd, cwd |-> cwd, stdin |-> "inherit", stdout |-> "pipe",
     stderr |-> "pipe", state |-> "running", returncode |-> 0,
     out |-> [stdout |-> "", stderr |-> ""], executions |-> 1, signals |-> << >>]

\* What a child may write to its pipes: valid UTF-8, or bytes that are not.
Readable == [stdout |-> "b:out", stderr |-> "b:err"]
Unreadable == [stdout |-> "b:\\xff", stderr |-> "b:"]

\* The ways a child may end: its exit status and what it wrote.
Endings == {[code |-> 0, out |-> Readable], [code |-> 1, out |-> Readable],
            [code |-> 124, out |-> Readable], [code |-> 0, out |-> Unreadable]}

\* b.decode('utf-8'): whether it raises UnicodeDecodeError, and the text if not.
DecodeRaises(b) == b = "b:\\xff"
decode(b) == IF b = "b:out" THEN "out" ELSE IF b = "b:err" THEN "err" ELSE ""

\* A variant of the result below that reports every failed child as exit code 124.
CompletionResultAs124(script_config, proc) ==
    ScriptExecutionResult(
        IF proc.returncode # 0 THEN 124 ELSE 0,
        decode(proc.out.stdout),
        [kind |-> "captured", exc |-> "", timeout |-> 0, text |-> decode(proc.out.stderr)],
        script_config.name)

\* The result of the normal path (lines 114-122), or of `except Exception` when a
\* decode raises (lines 139-147).
CompletionResult(script_config, proc) ==
    IF DecodeRaises(proc.out.stdout) \/ DecodeRaises(proc.out.stderr)
    THEN ScriptExecutionResult(1, "",
             [kind |-> "error", exc |-> "UnicodeDecodeError", timeout |-> 0, text |-> ""],
             script_config.name)
    ELSE ScriptExecutionResult(
             IF proc.returncode # 0 THEN proc.returncode ELSE 0,
             decode(proc.out.stdout),
             [kind |-> "captured", exc |-> "", timeout |-> 0,
              text |-> decode(proc.out.stderr)],
             script_config.name)

\* A variant of the timeout result below that reports the child's own status.
TimeoutResultChildStatus(script_config, proc) ==
    ScriptExecutionResult(proc.returncode, decode(proc.out.stdout),
        [kind |-> "timed_out", exc |-> "", timeout |-> script_config.timeout, text |-> ""],
        script_config.name)

\* The result of `except asyncio.TimeoutError` (lines 131-137).
TimeoutResult(script_config, proc) ==
    ScriptExecutionResult(124, "",
        [kind |-> "timed_out", exc |-> "", timeout |-> script_config.timeout, text |-> ""],
        script_config.name)

\* A variant of the result below that reports the failed spawn as a clean run.
SpawnErrorResultSilent(script_config) ==
    ScriptExecutionResult(0, "",
        [kind |-> "captured", exc |-> "", timeout |-> 0, text |-> ""],
        script_config.name)

\* The result of `except Exception` for a spawn that raised (lines 139-147).
SpawnErrorResult(script_config) ==
    ScriptExecutionResult(1, "",
        [kind |-> "error", exc |-> "FileNotFoundError", timeout |-> 0, text |-> ""],
        script_config.name)

\* cmd = ["bash", script_config.path] + arguments
cmd(script_config, arguments) == <<"bash", script_config.path>> \o arguments

\* A variant of the choice below that always takes the registry's default.
working_dir_default(script_config, c) == c.working_directory

\* working_dir = script_config.working_directory or config.working_directory
working_dir(script_config, c) ==
    IF script_config.working_directory # "" THEN script_config.working_directory
    ELSE c.working_directory


\* --------------------------------------------------------- server.py
\* TextContent(type="text", text=...): the text is kept as its parts.  `exc` is the
\* exception a handler reported, `origin` the function that raised it.
TextContent(msg, exc, origin) ==
    [type |-> "text", msg |-> msg, exc |-> exc, origin |-> origin]

\* A variant of the clause below that lets the exception go on to the dispatcher,
\* which reports it as an error.
Uncaught(msg, exc, origin) == [type |-> "error", msg |-> msg, exc |-> exc, origin |-> origin]

\* A handler's `except Exception as e`: the exception ends there, as a text.
Caught(msg, exc, origin) == TextContent(msg, exc, origin)

\* The text block handle_run_script formats from a result (lines 140-153).
FormatResult(result) ==
    [type |-> "text", msg |-> "Script:", exc |-> "", origin |-> "",
     script_name |-> result.script_name, exit_code |-> result.exit_code,
     success |-> success(result), stdout |-> result.stdout, stderr |-> result.stderr]

\* The blocks handle_list_scripts formats (lines 164-178).
FormatList(scripts) ==
    IF scripts = {} THEN TextContent("No scripts configured", "", "")
    ELSE [type |-> "text", msg |-> "Available Scripts:", exc |-> "", origin |-> "",
          blocks |-> scripts]

\* The arguments of a tool call: script_name and path are "" when absent, arguments
\* is [] when absent.
Call(name, script_name, arguments, path) ==
    [name |-> name, script_name |-> script_name, arguments |-> arguments, path |-> path]

ArgLists == {<< >>, <<"a b", "; rm -rf /">>}

ToolCalls ==
    {Call("run_script", "hello", a, "") : a \in ArgLists}
    \cup {Call("run_script", n, << >>, "") : n \in {"slow", "loop", "gone", "nope", ""}}
    \cup {Call("get_script_info", n, << >>, "") : n \in {"hello", "nope", ""}}
    \cup {Call("set_working_directory", "", << >>, p) : p \in {"/work", "/nonexistent", ""}}
    \cup {Call(n, "", << >>, "") :
            n \in {"list_scripts", "get_working_directory", "reload_config", "bogus"}}

\* ------------------------------------------------------------- state
VARIABLES
    cfgFile,     \* the content of .mcp-config.json
    edits,       \* how many times the file was edited from outside
    _config,     \* ConfigManager._config (Optional)
    nextId,      \* the id of the client's next request
    inbound,     \* the requests on the server's stdin, not yet read
    tasks,       \* per request id: the handler's position and its locals
    process,     \* per request id: the child process (Optional)
    responses,   \* the responses written to the server's stdout, in order
    stolen,      \* the ids of the requests a child read from the server's stdin
    snap,        \* the last load or reload and what readers observed since
    request_id,  \* MCPClient.request_id
    client,      \* the caller: which program it is, where it stands, what it awaits
    session,     \* the server's side of the handshake
    toServer,    \* the lines written to the server's stdin by the caller
    toClient,    \* the response lines on the server's stdout, not yet read
    pending,     \* the ids of the tool requests accepted and not yet answered
    history,     \* what was sent, accepted and returned so far
    pid_file,    \* the content of .mcp_server.pid
    managed,     \* the server process the manager started
    manager      \* MCPServerManager: the command it runs and where it stands

\* The state of the server and of what it runs.
svars == <<cfgFile, edits, _config, nextId, inbound, tasks, process, responses,
           stolen, snap>>

\* The state of a caller's connection.
cvars == <<request_id, client, session, toServer, toClient, pending, history>>

\* The state of the server process manager.
mvars == <<pid_file, managed, manager>>

vars == <<cfgFile, edits, _config, nextId, inbound, tasks, process, responses,
          stolen, snap, request_id, client, session, toServer, toClient, pending,
          history, pid_file, managed, manager>>

NoTask == [pc |-> "none", script_config |-> << >>, arguments |-> << >>,
           fired |-> FALSE, started |-> << >>]

\* The scripts of an Optional configuration, as an Optional.
ScriptsOf(c) == IF c = << >> THEN << >> ELSE <<c[1].scripts>>

\* A connection before anything was sent on it: MCPClient.__init__ sets request_id
\* to 0, and the server awaits the initialize request.
Connection(program) ==
    /\ request_id = 0
    /\ client = [program |-> program, pc |-> "connect", waiting |-> 0]
    /\ session = "AwaitingInitialize"
    /\ toServer = << >>
    /\ toClient = << >>
    /\ pending = {}
    /\ history = [sent |-> << >>, accepted |-> {}, returned |-> {}]

\* main (lines 262-263): load_config runs before the server reads anything, and the
\* server starts only if it did not raise.
ServerInit ==
    /\ cfgFile \in {load_config(<< >>, f).file :
                       f \in {g \in FileContents : ~load_config(<< >>, g).raised}}
    /\ edits = 0
    /\ _config \in {load_config(<< >>, f)._config :
                       f \in {g \in FileContents :
                                /\ ~load_config(<< >>, g).raised
                                /\ load_config(<< >>, g).file = cfgFile}}
    /\ nextId = 1
    /\ inbound = << >>
    /\ tasks = [i \in Ids |-> NoTask]
    /\ process = [i \in Ids |-> << >>]
    /\ responses = << >>
    /\ stolen = {}
    /\ snap = [pre |-> ScriptsOf(_config), post |-> ScriptsOf(_config), ok |-> TRUE,
               file |-> << >>, observed |-> << >>]

\* MCPServerManager before a command: nothing signalled, nothing returned.
Idle == [pc |-> "idle", op |-> "", polls |-> 0, signals |-> << >>, returned |-> << >>,
         commands |-> 0]

\* The server was not started through the manager: no PID file, no managed process.
Unmanaged ==
    /\ pid_file = "absent"
    /\ managed = "gone"
    /\ manager = Idle

\* The server as started, and a connection nothing was sent on yet.
Init == ServerInit /\ Connection("MCPClient") /\ Unmanaged


\* ------------------------------------------------------- the dispatcher
\* An await of the executor (create_subprocess_exec, wait_for(communicate()),
\* process.wait()) parks the coroutine of request i and gives the thread back to
\* the event loop: a parked request never holds the thread.
HoldsThreadBlocking(i) == tasks[i].pc \in {"wait_for", "kill_wait"}

HoldsThread(i) == FALSE

\* The event loop can run another segment.
LoopFree == \A i \in Ids : ~HoldsThread(i)

\* The dispatcher writes a handler's return value as the response of the request.
Respond(id, content) ==
    responses' = Append(responses, [id |-> id, content |-> content])

\* The handler of request id has returned: its locals are gone.  What is kept is
\* what the run began with (started) and whether its timer fired.
Ended(id, fired, started) ==
    tasks' = [tasks EXCEPT ![id] =
                 [pc |-> "done", script_config |-> << >>, arguments |-> << >>,
                  fired |-> fired, started |-> started]]

Done(id) == Ended(id, tasks[id].fired, tasks[id].started)

\* What a reader of the registry observed: a snapshot's scripts, or the error of
\* the load its read set off.
Observation(r) ==
    IF r.raised THEN [kind |-> "error", scripts |-> NoScripts]
    ELSE [kind |-> "snapshot", scripts |-> r._config[1].scripts]

Observe(r) == snap' = [snap EXCEPT !.observed = <<Observation(r)>>]

\* The client writes its next request to the server's stdin.
ClientSend(c) ==
    /\ UNCHANGED <<cvars, mvars>>
    /\ nextId <= MaxRequests
    /\ Len(inbound) < MaxInbound
    /\ inbound' = Append(inbound, [id |-> nextId, call |-> c])
    /\ nextId' = nextId + 1
    /\ UNCHANGED <<cfgFile, edits, _config, tasks, process, responses, stolen, snap>>

\* Someone edits the configuration file.
EditFile(f) ==
    /\ UNCHANGED <<cvars, mvars>>
    /\ edits < MaxEdits
    /\ f # cfgFile
    /\ cfgFile' = f
    /\ edits' = edits + 1
    /\ UNCHANGED <<_config, nextId, inbound, tasks, process, responses, stolen, snap>>

\* ------------------------------------------------------------ handlers
\* handle_list_scripts
handle_list_scripts(m) ==
    LET r == config(_config, cfgFile) IN
    /\ _config' = r._config
    /\ cfgFile' = r.file
    /\ Observe(r)
    /\ Respond(m.id,
               IF r.raised
               THEN Caught("Error listing scripts:", "ValueError", "load_config")
               ELSE FormatList(list_available_scripts(r._config[1])))
    /\ Done(m.id)
    /\ UNCHANGED process

\* handle_get_script_info
handle_get_script_info(m) ==
    LET r == config(_config, cfgFile) IN
    IF m.call.script_name = ""
    THEN /\ Respond(m.id, TextContent("Error: script_name is required", "", ""))
         /\ Done(m.id)
         /\ UNCHANGED <<_config, cfgFile, snap, process>>
    ELSE /\ _config' = r._config
         /\ cfgFile' = r.file
         /\ Observe(r)
         /\ Respond(m.id,
               IF r.raised
               THEN Caught("Error getting script info:", "ValueError", "load_config")
               ELSE IF get_script_config(r._config[1], m.call.script_name) = << >>
               THEN TextContent("Script not found:", "", "")
               ELSE [type |-> "text", msg |-> "Script Information:", exc |-> "",
                     origin |-> "", requested |-> m.call.script_name,
                     info |-> get_script_config(r._config[1], m.call.script_name)[1]])
         /\ Done(m.id)
         /\ UNCHANGED process

\* handle_get_working_directory
handle_get_working_directory(m) ==
    LET r == config(_config, cfgFile) IN
    /\ _config' = r._config
    /\ cfgFile' = r.file
    /\ Respond(m.id,
               IF r.raised
               THEN Caught("Error getting working directory:", "ValueError",
                                "load_config")
               ELSE [type |-> "text", msg |-> "Current working directory:", exc |-> "",
                     origin |-> "", working_dir |-> r._config[1].working_directory])
    /\ Done(m.id)
    /\ UNCHANGED <<snap, process>>

\* handle_set_working_directory
handle_set_working_directory(m) ==
    LET r == config(_config, cfgFile)
        path == m.call.path IN
    IF path = ""
    THEN /\ Respond(m.id, TextContent("Error: path is required", "", ""))
         /\ Done(m.id)
         /\ UNCHANGED <<_config, cfgFile, snap, process>>
    ELSE IF ~PathExists(path)
    THEN /\ Respond(m.id, TextContent("Error: Directory does not exist:", "", ""))
         /\ Done(m.id)
         /\ UNCHANGED <<_config, cfgFile, snap, process>>
    ELSE /\ cfgFile' = r.file
         /\ _config' = IF r.raised THEN r._config
                       ELSE <<[r._config[1] EXCEPT !.working_directory = path]>>
         /\ Respond(m.id,
               IF r.raised
               THEN Caught("Error setting working directory:", "ValueError",
                                "load_config")
               ELSE [type |-> "text", msg |-> "Working directory set to:", exc |-> "",
                     origin |-> "", working_dir |-> path])
         /\ Done(m.id)
         /\ UNCHANGED <<snap, process>>

\* handle_reload_config
handle_reload_config(m) ==
    LET r == reload_config(_config, cfgFile) IN
    /\ _config' = r._config
    /\ cfgFile' = r.file
    /\ snap' = [pre |-> ScriptsOf(_config),
                post |-> IF r.raised THEN << >> ELSE ScriptsOf(r._config),
                ok |-> ~r.raised,
                file |-> IF ~r.raised /\ cfgFile.kind = "json" THEN <<cfgFile>> ELSE << >>,
                observed |-> << >>]
    /\ Respond(m.id,
               IF r.raised
               THEN Caught("Error reloading configuration:", "ValueError",
                                "load_config")
               ELSE TextContent("Configuration reloaded successfully", "", ""))
    /\ Done(m.id)
    /\ UNCHANGED process


\* handle_run_script up to the first await that parks it: execute_script (the lookup)
\* and _execute_script_config down to the spawn (lines 88-106).
handle_run_script(m) ==
    LET r == config(_config, cfgFile)
        found == get_script_config(r._config[1], m.call.script_name)
        script_config == found[1]
        dir == working_dir(script_config, r._config[1])
        begun == [script_name |-> m.call.script_name, script_config |-> script_config,
                  arguments |-> m.call.arguments,
                  default |-> r._config[1].working_directory]
    IN
    IF m.call.script_name = ""
    THEN /\ Respond(m.id, TextContent("Error: script_name is required", "", ""))
         /\ Done(m.id)
         /\ UNCHANGED <<_config, cfgFile, snap, process>>
    ELSE
    /\ _config' = r._config
    /\ cfgFile' = r.file
    /\ Observe(r)
    /\ IF r.raised
       THEN /\ Respond(m.id, Caught("Error executing script:", "ValueError",
                                         "load_config"))
            /\ Done(m.id)
            /\ UNCHANGED process
       ELSE IF found = << >>
       THEN /\ Respond(m.id, Caught("Error executing script:",
                                         "ValueError: Script not found", "execute_script"))
            /\ Done(m.id)
            /\ UNCHANGED process
       ELSE IF ~Resolves(dir)
       THEN \* line 96 is outside the try: the exception leaves the executor
            /\ Respond(m.id, Caught("Error executing script:", "RuntimeError",
                                         "_execute_script_config"))
            /\ Ended(m.id, FALSE, <<begun>>)
            /\ UNCHANGED process
       ELSE IF ~CwdUsable(resolve(dir))
       THEN \* the spawn raises inside the try: except Exception
            /\ Respond(m.id, FormatResult(SpawnErrorResult(script_config)))
            /\ Ended(m.id, FALSE, <<begun>>)
            /\ UNCHANGED process
       ELSE /\ process' = [process EXCEPT ![m.id] =
                  <<create_subprocess_exec(cmd(script_config, m.call.arguments),
                                           resolve(dir))>>]
            /\ tasks' = [tasks EXCEPT ![m.id] =
                            [pc |-> "wait_for", script_config |-> found,
                             arguments |-> m.call.arguments, fired |-> FALSE,
                             started |-> <<begun>>]]
            /\ UNCHANGED responses

\* The six operations call_tool dispatches on.
Operations == {"run_script", "list_scripts", "get_script_info", "get_working_directory",
               "set_working_directory", "reload_config"}

\* call_tool: the handler of the named tool, or the text for an unknown one.  The
\* handlers catch what they raise, so the outer `except Exception` is never entered.
call_tool(m) ==
    \/ m.call.name = "run_script" /\ handle_run_script(m)
    \/ m.call.name = "list_scripts" /\ handle_list_scripts(m)
    \/ m.call.name = "get_script_info" /\ handle_get_script_info(m)
    \/ m.call.name = "get_working_directory" /\ handle_get_working_directory(m)
    \/ m.call.name = "set_working_directory" /\ handle_set_working_directory(m)
    \/ m.call.name = "reload_config" /\ handle_reload_config(m)
    \/ /\ m.call.name \notin Operations
       /\ Respond(m.id, TextContent("Unknown tool:", "", ""))
       /\ Done(m.id)
       /\ UNCHANGED <<_config, cfgFile, snap, process>>

\* The read loop takes the next request off stdin and starts its handler, which
\* runs to its first await.
Receive ==
    /\ UNCHANGED <<cvars, mvars>>
    /\ inbound # << >>
    /\ LoopFree
    /\ inbound' = Tail(inbound)
    /\ call_tool(Head(inbound))
    /\ UNCHANGED <<edits, nextId, stolen>>

\* ------------------------------------------- the executor after the spawn
\* The request's other segments can run when no other request holds the thread.
CanRun(i) == \A j \in Ids \ {i} : ~HoldsThread(j)

\* A variant of the definition below that looks the script up again.
ResumeSpecLookup(i) ==
    IF _config # << >> /\ tasks[i].script_config[1].name \in DOMAIN _config[1].scripts
    THEN _config[1].scripts[tasks[i].script_config[1].name]
    ELSE tasks[i].script_config[1]

\* script_config, the local of _execute_script_config, read after an await
\* (lines 111, 121, 134, 136).
ResumeSpec(i) == tasks[i].script_config[1]

\* The child of request i ends by itself.
ChildExit(i, e) ==
    /\ UNCHANGED <<cvars, mvars>>
    /\ tasks[i].pc = "wait_for"
    /\ process[i][1].state = "running"
    /\ process' = [process EXCEPT ![i] =
                      <<[@[1] EXCEPT !.state = "exited", !.returncode = e.code, !.out = e.out]>>]
    /\ UNCHANGED <<cfgFile, edits, _config, nextId, inbound, tasks, responses, stolen,
                   snap>>

\* wait_for returns what communicate() read (lines 109-122); a timeout that is not
\* positive leaves communicate() no turn.
Complete(i) ==
    /\ UNCHANGED <<cvars, mvars>>
    /\ tasks[i].pc = "wait_for"
    /\ CanRun(i)
    /\ process[i][1].state = "exited"
    /\ ResumeSpec(i).timeout > 0
    /\ Respond(i, FormatResult(CompletionResult(ResumeSpec(i), process[i][1])))
    /\ Done(i)
    /\ UNCHANGED <<cfgFile, edits, _config, nextId, inbound, process, stolen, snap>>

\* The timer of wait_for fires first: except asyncio.TimeoutError (lines 124-137).
\* kill() is sent when returncode is None, and may raise (the child now runs as
\* another user); the exception then leaves the executor.
TimerFires(i) ==
    /\ UNCHANGED <<cvars, mvars>>
    /\ tasks[i].pc = "wait_for"
    /\ CanRun(i)
    /\ IF process[i][1].state = "running"
       THEN \/ /\ process' = [process EXCEPT ![i] =
                     <<[@[1] EXCEPT !.state = "killed",
                                    !.signals = Append(@, "SIGKILL")]>>]
               /\ tasks' = [tasks EXCEPT ![i] = [@ EXCEPT !.pc = "kill_wait",
                                                          !.fired = TRUE]]
               /\ UNCHANGED responses
            \/ /\ Respond(i, Caught("Error executing script:", "PermissionError",
                                         "_execute_script_config"))
               /\ Ended(i, TRUE, tasks[i].started)
               /\ UNCHANGED process
       ELSE /\ Respond(i, FormatResult(TimeoutResult(ResumeSpec(i), process[i][1])))
            /\ Ended(i, TRUE, tasks[i].started)
            /\ UNCHANGED process
    /\ UNCHANGED <<cfgFile, edits, _config, nextId, inbound, stolen, snap>>

\* The killed child is gone and has been waited for.
ChildReaped(i) ==
    /\ UNCHANGED <<cvars, mvars>>
    /\ process[i] # << >>
    /\ process[i][1].state = "killed"
    /\ process' = [process EXCEPT ![i] =
                      <<[@[1] EXCEPT !.state = "reaped", !.returncode = -9]>>]
    /\ UNCHANGED <<cfgFile, edits, _config, nextId, inbound, tasks, responses, stolen,
                   snap>>

\* A variant of the wait below that returns at once, the kill still on its way.
process_wait_at_once(proc) == TRUE

\* await process.wait() (line 129) returns once the child is gone and was reaped.
process_wait(proc) == proc.state = "reaped"

\* await process.wait() returns (line 129), and the timeout result with it.
TimeoutReturn(i) ==
    /\ UNCHANGED <<cvars, mvars>>
    /\ tasks[i].pc = "kill_wait"
    /\ CanRun(i)
    /\ process_wait(process[i][1])
    /\ Respond(i, FormatResult(TimeoutResult(ResumeSpec(i), process[i][1])))
    /\ Done(i)
    /\ UNCHANGED <<cfgFile, edits, _config, nextId, inbound, process, stolen, snap>>

\* A running child reads from the stdin it was given: when that is the server's, it
\* takes the next request off it.
ChildReadsStdin(i) ==
    /\ UNCHANGED <<cvars, mvars>>
    /\ process[i] # << >>
    /\ process[i][1].state = "running"
    /\ process[i][1].stdin = "inherit"
    /\ inbound # << >>
    /\ inbound' = Tail(inbound)
    /\ stolen' = stolen \cup {Head(inbound).id}
    /\ UNCHANGED <<cfgFile, edits, _config, nextId, tasks, process, responses, snap>>

Next ==
    \/ \E c \in ToolCalls : ClientSend(c)
    \/ \E f \in FileContents : EditFile(f)
    \/ Receive
    \/ \E i \in Ids, e \in Endings : ChildExit(i, e)
    \/ \E i \in Ids : Complete(i)
    \/ \E i \in Ids : TimerFires(i)
    \/ \E i \in Ids : ChildReaped(i)
    \/ \E i \in Ids : TimeoutReturn(i)
    \/ \E i \in Ids : ChildReadsStdin(i)

Spec == Init /\ [][Next]_vars


\* ------------------------------------------------- client.py and the handshake
\* How many requests a caller sends on its connection.
MaxClientRequests == 3

\* A variant of the id generator below that hands out the current id again.
_get_next_request_id_again(r) == IF r = 0 THEN 1 ELSE r

\* MCPClient._get_next_request_id: the incremented counter, which is also stored.
_get_next_request_id(r) == r + 1

\* MCPResponse as send_request returns it: success is true when a line was read and
\* it holds no "error"; id is the id the line carries (send_request does not look at
\* it), 0 when no line was read.
MCPResponse(succeeded, id) == [success |-> succeeded, id |-> id]

\* A variant of the test below that takes any outcome for a success.
SendsInitializedAnyway(response) == TRUE

\* MCPClient.initialize: `if response.success:` guards the initialized notification.
SendsInitialized(response) == response.success

\* The lines a caller writes.
RequestLine(id, method) == [kind |-> "request", id |-> id, method |-> method]
NotificationLine(method) == [kind |-> "notification", id |-> 0, method |-> method]

\* A response line with its id, a result or an error.
ResponseLine(id, error) == [id |-> id, error |-> error]

\* MCPClient.send_request up to its wait for a line: takes the next id and writes
\* the request.
send_request(method) ==
    /\ request_id' = _get_next_request_id(request_id)
    /\ toServer' = Append(toServer, RequestLine(request_id', method))
    /\ history' = [history EXCEPT !.sent = Append(@, request_id')]

\* What initialize and call_tool do with the response send_request returned.
Returned(response) ==
    IF client.pc = "init_wait"
    THEN /\ IF SendsInitialized(response)
            THEN /\ toServer' = Append(toServer, NotificationLine("notifications/initialized"))
                 /\ client' = [client EXCEPT !.pc = "ready", !.waiting = 0]
            ELSE /\ client' = [client EXCEPT !.pc = "failed", !.waiting = 0]
                 /\ UNCHANGED toServer
         /\ UNCHANGED history
    ELSE /\ client' = [client EXCEPT !.pc = "ready", !.waiting = 0]
         /\ history' = [history EXCEPT !.returned =
                            @ \cup {[request |-> client.waiting, success |-> response.success,
                                     response |-> response.id]}]
         /\ UNCHANGED toServer

\* MCPClient.connect, after the server was spawned: initialize sends its request.
MCPClient_initialize ==
    /\ client.program = "MCPClient"
    /\ client.pc = "connect"
    /\ send_request("initialize")
    /\ client' = [client EXCEPT !.pc = "init_wait", !.waiting = request_id']
    /\ UNCHANGED <<session, toClient, pending>>
    /\ UNCHANGED <<svars, mvars>>

\* MCPClient.call_tool, which main calls only after connect has succeeded.
MCPClient_call_tool ==
    /\ client.program = "MCPClient"
    /\ client.pc = "ready"
    /\ request_id < MaxClientRequests
    /\ send_request("tools/call")
    /\ client' = [client EXCEPT !.pc = "call_wait", !.waiting = request_id']
    /\ UNCHANGED <<session, toClient, pending>>
    /\ UNCHANGED <<svars, mvars>>

\* send_request reads the next line of the server's stdout, whichever it is.
ReadLine ==
    /\ client.pc \in {"init_wait", "call_wait"}
    /\ toClient # << >>
    /\ toClient' = Tail(toClient)
    /\ Returned(MCPResponse(~Head(toClient).error, Head(toClient).id))
    /\ UNCHANGED <<request_id, session, pending>>
    /\ UNCHANGED <<svars, mvars>>

\* How many lines a caller has on the server's stdin at a time.
MaxLines == 2

\* What a caller other than MCPClient may write: any of the three lines, in any
\* order, its requests numbered as MCPClient numbers them.
HostSend(method) ==
    /\ client.program = "host"
    /\ Len(toServer) < MaxLines
    /\ IF method = "notifications/initialized"
       THEN /\ toServer' = Append(toServer, NotificationLine(method))
            /\ UNCHANGED <<request_id, history>>
       ELSE /\ request_id < MaxClientRequests
            /\ send_request(method)
    /\ UNCHANGED <<client, session, toClient, pending>>
    /\ UNCHANGED <<svars, mvars>>

\* A variant of the test below that accepts tool requests in every state.
AcceptsAlways(state) == TRUE

\* The connection accepts tool requests once it is Ready.
Accepts(state) == state = "Ready"

\* The server reads the next line: it answers initialize, notes the initialized
\* notification, and hands a tool request to call_tool if the connection is Ready,
\* answering it with an error otherwise.
ServerRead ==
    /\ toServer # << >>
    /\ toServer' = Tail(toServer)
    /\ LET m == Head(toServer) IN
       IF m.kind = "notification"
       THEN /\ session' = IF session = "Initializing" THEN "Ready" ELSE session
            /\ UNCHANGED <<toClient, pending, history>>
       ELSE IF m.method = "initialize"
       THEN /\ session' = IF session = "AwaitingInitialize" THEN "Initializing"
                          ELSE session
            /\ toClient' = Append(toClient, ResponseLine(m.id, FALSE))
            /\ UNCHANGED <<pending, history>>
       ELSE IF Accepts(session)
       THEN /\ pending' = pending \cup {m.id}
            /\ history' = [history EXCEPT !.accepted = @ \cup {m.id}]
            /\ UNCHANGED <<session, toClient>>
       ELSE /\ toClient' = Append(toClient, ResponseLine(m.id, TRUE))
            /\ UNCHANGED <<session, pending, history>>
    /\ UNCHANGED <<request_id, client>>
    /\ UNCHANGED <<svars, mvars>>

\* The handler of an accepted tool request returns, and its response is written.
ServerAnswer(id) ==
    /\ id \in pending
    /\ pending' = pending \ {id}
    /\ toClient' = Append(toClient, ResponseLine(id, FALSE))
    /\ UNCHANGED <<request_id, client, session, toServer, history>>
    /\ UNCHANGED <<svars, mvars>>

\* wait_for(readline(), timeout=5.0) expires with no line read.
RequestTimeout ==
    /\ client.pc \in {"init_wait", "call_wait"}
    /\ toClient = << >>
    /\ Returned(MCPResponse(FALSE, 0))
    /\ UNCHANGED <<request_id, session, toClient, pending>>
    /\ UNCHANGED <<svars, mvars>>

ClientInit ==
    /\ ServerInit
    /\ cfgFile = FileA
    /\ \E program \in {"MCPClient", "host"} : Connection(program)
    /\ Unmanaged

ClientNext ==
    \/ MCPClient_initialize
    \/ MCPClient_call_tool
    \/ ReadLine
    \/ RequestTimeout
    \/ \E method \in {"initialize", "notifications/initialized", "tools/call"} :
          HostSend(method)
    \/ ServerRead
    \/ \E id \in 1..MaxClientRequests : ServerAnswer(id)

ClientSpec == ClientInit /\ [][ClientNext]_vars


\* ------------------------------------------------------- start_server.py
\* How many commands (start, stop) are given to the manager.
MaxCommands == 2

\* The polls of the grace period: range(10) in stop_server.
GracePolls == 10

\* The PID file is absent, holds the PID the server was started with, or holds
\* what int() cannot read.
PidFiles == {"absent", "pid", "unreadable"}

\* The managed server runs, runs with a SIGTERM or a SIGKILL delivered, or is gone.
Alive(p) == p \in {"running", "terminating", "killed"}

\* MCPServerManager.get_pid: Optional PID.
get_pid(f) == IF f = "pid" THEN <<"pid">> ELSE << >>

\* MCPServerManager._cleanup: the PID file is unlinked if it exists.
_cleanup(f) == "absent"

\* MCPServerManager.is_running: the answer, and the PID file afterwards (a PID
\* whose process is gone makes it clean up).
is_running(f, p) ==
    IF get_pid(f) = << >> THEN [running |-> FALSE, pid_file |-> f]
    ELSE IF Alive(p) THEN [running |-> TRUE, pid_file |-> f]
    ELSE [running |-> FALSE, pid_file |-> _cleanup(f)]

\* A command returns.
Return(op, value, polls, signals) ==
    manager' = [pc |-> "returned", op |-> op, polls |-> polls, signals |-> signals,
                returned |-> <<value>>, commands |-> manager.commands]

\* A new command is given once the one before has returned.
Begins ==
    /\ manager.pc \in {"idle", "returned"}
    /\ manager.commands < MaxCommands

\* start_server in the background, lines 34-59: nothing to do when the server
\* runs; otherwise the server is spawned and its PID written.
start_server ==
    /\ Begins
    /\ LET r == is_running(pid_file, managed) IN
       IF r.running
       THEN /\ UNCHANGED <<pid_file, managed>>
            /\ manager' = [pc |-> "returned", op |-> "start", polls |-> 0,
                           signals |-> << >>, returned |-> <<TRUE>>,
                           commands |-> manager.commands + 1]
       ELSE /\ managed' = "running"
            /\ pid_file' = "pid"
            /\ manager' = [pc |-> "started", op |-> "start", polls |-> 0,
                           signals |-> << >>, returned |-> << >>,
                           commands |-> manager.commands + 1]
    /\ UNCHANGED <<svars, cvars>>

\* start_server, lines 62-72: after the two seconds, whether the server still runs.
start_check ==
    /\ manager.pc = "started"
    /\ Return("start", Alive(managed), manager.polls, manager.signals)
    /\ UNCHANGED <<pid_file, managed>>
    /\ UNCHANGED <<svars, cvars>>

\* stop_server, lines 89-91: a server that is not running is reported as stopped.
stop_server ==
    /\ Begins
    /\ LET r == is_running(pid_file, managed) IN
       /\ pid_file' = r.pid_file
       /\ manager' = [pc |-> IF r.running THEN "sigterm" ELSE "returned",
                      op |-> "stop", polls |-> 0, signals |-> << >>,
                      returned |-> IF r.running THEN << >> ELSE <<TRUE>>,
                      commands |-> manager.commands + 1]
    /\ UNCHANGED managed
    /\ UNCHANGED <<svars, cvars>>

\* stop_server, lines 94-97: os.kill(pid, SIGTERM); a process gone by then raises
\* ProcessLookupError (lines 114-117).
stop_sigterm ==
    /\ manager.pc = "sigterm"
    /\ IF Alive(managed)
       THEN /\ managed' = "terminating"
            /\ manager' = [manager EXCEPT !.pc = "polling",
                                          !.signals = Append(@, "SIGTERM")]
            /\ UNCHANGED pid_file
       ELSE /\ pid_file' = _cleanup(pid_file)
            /\ Return("stop", TRUE, manager.polls, manager.signals)
            /\ UNCHANGED managed
    /\ UNCHANGED <<svars, cvars>>

\* stop_server, lines 100-103: one poll of the grace period; the loop ends when the
\* server is found gone or after GracePolls polls.
stop_poll ==
    /\ manager.pc = "polling"
    /\ LET r == is_running(pid_file, managed) IN
       /\ pid_file' = r.pid_file
       /\ manager' = IF ~r.running THEN [manager EXCEPT !.pc = "after_polls"]
                     ELSE [manager EXCEPT
                              !.polls = @ + 1,
                              !.pc = IF manager.polls + 1 = GracePolls
                                     THEN "after_polls" ELSE "polling"]
    /\ UNCHANGED managed
    /\ UNCHANGED <<svars, cvars>>

\* stop_server, lines 106-112: the check after the polls; a server found gone is
\* cleaned up after and reported as stopped.
stop_after_polls ==
    /\ manager.pc = "after_polls"
    /\ LET r == is_running(pid_file, managed) IN
       IF r.running
       THEN /\ manager' = [manager EXCEPT !.pc = "sigkill"]
            /\ UNCHANGED pid_file
       ELSE /\ pid_file' = _cleanup(r.pid_file)
            /\ Return("stop", TRUE, manager.polls, manager.signals)
    /\ UNCHANGED managed
    /\ UNCHANGED <<svars, cvars>>

\* stop_server, lines 108-112: os.kill(pid, SIGKILL), then _cleanup; a process gone
\* by then raises ProcessLookupError (lines 114-117), with the same end.
stop_sigkill ==
    /\ manager.pc = "sigkill"
    /\ IF Alive(managed)
       THEN /\ managed' = "killed"
            /\ Return("stop", TRUE, manager.polls, Append(manager.signals, "SIGKILL"))
       ELSE /\ Return("stop", TRUE, manager.polls, manager.signals)
            /\ UNCHANGED managed
    /\ pid_file' = _cleanup(pid_file)
    /\ UNCHANGED <<svars, cvars>>

\* The managed server exits: by itself, on the SIGTERM or on the SIGKILL.
ServerExits ==
    /\ Alive(managed)
    /\ managed' = "gone"
    /\ UNCHANGED <<pid_file, manager>>
    /\ UNCHANGED <<svars, cvars>>

\* Before the first command: any PID file, with or without a running server.
ManagerInit ==
    /\ ServerInit
    /\ cfgFile = FileA
    /\ Connection("MCPClient")
    /\ pid_file \in PidFiles
    /\ managed \in {"running", "gone"}
    /\ manager = Idle

ManagerNext ==
    \/ start_server
    \/ start_check
    \/ stop_server
    \/ stop_sigterm
    \/ stop_poll
    \/ stop_after_polls
    \/ stop_sigkill
    \/ ServerExits

ManagerSpec == ManagerInit /\ [][ManagerNext]_vars


\* ------------------------------------------------------------ properties
\* The contents of the responses written for request i.
ContentsFor(i) == {responses[k].content : k \in {n \in 1..Len(responses) : responses[n].id = i}}

\* How many responses were written for request i.
CountFor(i) == Cardinality({n \in 1..Len(responses) : responses[n].id = i})

\* A response that carries a formatted ScriptExecutionResult.
IsResult(c) == c.msg = "Script:"

\* Request i is parked on an await of the executor.
Parked(i) == tasks[i].pc \in {"wait_for", "kill_wait"}

\* The requests the client has sent.
Sent == 1..(nextId - 1)

\* The requests still on the server's stdin.
Queued == {inbound[k].id : k \in 1..Len(inbound)}

\* C1: execute returns an ExecutionResult for every spec and argument list and never
\* raises to its caller: no response reports an exception that left
\* _execute_script_config.
C1_ExecuteNeverRaises ==
    \A i \in Ids : \A c \in ContentsFor(i) : c.origin # "_execute_script_config"

\* C2: whenever the timer of wait_for fired, the result has exit_code 124, success
\* false and a stderr stating the timeout with the spec's timeout, and carries neither
\* the child's exit status nor its output.
C2_TimeoutResult ==
    \A i \in Ids : \A c \in ContentsFor(i) :
        tasks[i].fired /\ IsResult(c) =>
            /\ c.exit_code = 124
            /\ ~c.success
            /\ c.stderr.kind = "timed_out"
            /\ c.stdout = ""

\* C2, its case: a timed-out run was answered although its child had ended by itself
\* with status 0 and readable output.
C2_Witness ==
    \E i \in Ids : \E c \in ContentsFor(i) :
        /\ tasks[i].fired /\ IsResult(c)
        /\ process[i][1].state = "exited"
        /\ process[i][1].returncode = 0
        /\ process[i][1].out = Readable

\* C3: after the timer fired, returning the timeout result does not wait for the
\* kill to be confirmed: a run parked after kill() can return at once.
C3_ReturnDoesNotWaitForKill ==
    \A i \in Ids : tasks[i].pc = "kill_wait" => ENABLED TimeoutReturn(i)

C5_ExactlyOneResponse ==
    \A i \in Sent :
        /\ CountFor(i) <= 1
        /\ \/ CountFor(i) = 1
           \/ i \in Queued
           \/ Parked(i)

\* The directory a run that began with `b` is to run in.
BegunCwd(b) ==
    resolve(IF b.script_config.working_directory # ""
            THEN b.script_config.working_directory ELSE b.default)

\* C6: a run_script in flight across a reload completes with the spec it looked up
\* at its start: path and arguments of the child, its directory, the timeout named
\* in a timeout result and the name in any result are those of that spec.
C6_InFlightKeepsItsSpec ==
    \A i \in Ids : tasks[i].started # << >> =>
        LET b == tasks[i].started[1] IN
        /\ process[i] # << >> =>
              /\ process[i][1].argv = <<"bash", b.script_config.path>> \o b.arguments
              /\ process[i][1].cwd = BegunCwd(b)
        /\ \A c \in ContentsFor(i) : IsResult(c) =>
              /\ c.script_name = b.script_config.name
              /\ c.stderr.kind = "timed_out" => c.stderr.timeout = b.script_config.timeout
        /\ tasks[i].pc = "wait_for" /\ b.script_config.timeout <= 0 => ~ENABLED Complete(i)

\* C6, its case: the reload was answered first, then the run that was in flight
\* timed out, and the registry now holds another spec under that name.
C6_Witness ==
    /\ Len(responses) = 2
    /\ responses[1].content.msg = "Configuration reloaded successfully"
    /\ IsResult(responses[2].content)
    /\ responses[2].content.stderr.kind = "timed_out"
    /\ LET b == tasks[responses[2].id].started[1] IN
       /\ _config # << >>
       /\ b.script_config.name \in DOMAIN _config[1].scripts
       /\ _config[1].scripts[b.script_config.name].timeout # b.script_config.timeout

\* C7: every lookup or listing observes the whole snapshot from before the last
\* reload_config or the whole snapshot that reload installed, never an absent
\* registry.
C7_ReadersSeeASnapshot ==
    snap.observed # << >> =>
        /\ snap.observed[1].kind = "snapshot"
        /\ <<snap.observed[1].scripts>> \in {snap.pre, snap.post}

\* C8: after a successful reload_config of a stored configuration, and until the
\* next reload_config, the registry, the listing and every lookup made show exactly
\* the scripts that were in the file at the moment of the reload.
C8_ReloadReflectsStorage ==
    snap.file # << >> =>
        /\ _config # << >>
        /\ _config[1].scripts = snap.file[1].data.scripts
        /\ list_scripts(_config[1]) = DOMAIN snap.file[1].data.scripts
        /\ snap.observed # << >> =>
              snap.observed[1] = [kind |-> "snapshot",
                                  scripts |-> snap.file[1].data.scripts]

\* C8, its case: the reload replaced the scripts, and a lookup or listing was made
\* after it.
C8_Witness ==
    /\ snap.file # << >>
    /\ snap.pre # snap.post
    /\ snap.observed # << >>

\* C9: a child never takes a request off the server's stdin, and its stdout and
\* stderr are pipes of its own.
C9_ChildDoesNotShareStdin ==
    /\ stolen = {}
    /\ \A i \in Ids : process[i] # << >> =>
          process[i][1].stdout = "pipe" /\ process[i][1].stderr = "pipe"

\* C10 as stated: every run_script of a registered script has spawned exactly one
\* child once its handler parked or returned, with the argument vector bash, path,
\* arguments (of the runs it covers, those whose directory does not resolve are left
\* to C1).
C10_ExactlyOneChild ==
    \A i \in Ids : tasks[i].started # << >>
                        /\ Resolves(tasks[i].started[1].script_config.working_directory) =>
        /\ process[i] # << >>
        /\ process[i][1].executions = 1
        /\ process[i][1].argv =
              <<"bash", tasks[i].started[1].script_config.path>>
                  \o tasks[i].started[1].arguments

\* C10 as amended: a run_script of a registered script spawns exactly one child
\* when its working directory resolves and can be entered, and none otherwise; the
\* child is one execution whose argument vector is bash, the path and the caller's
\* arguments, token for token.
C10_OneChildUnlessSpawnFails ==
    \A i \in Ids : tasks[i].started # << >> =>
        LET b == tasks[i].started[1]
            dir == IF b.script_config.working_directory # ""
                   THEN b.script_config.working_directory ELSE b.default
        IN
        /\ process[i] # << >> <=> Resolves(dir) /\ CwdUsable(resolve(dir))
        /\ process[i] # << >> =>
              /\ process[i][1].executions = 1
              /\ Len(process[i][1].argv) = 2 + Len(b.arguments)
              /\ process[i][1].argv[1] = "bash"
              /\ process[i][1].argv[2] = b.script_config.path
              /\ \A k \in 1..Len(b.arguments) : process[i][1].argv[2 + k] = b.arguments[k]

\* C10, its case: a child was spawned for a call whose arguments hold shell
\* metacharacters and blanks.
C10_Witness ==
    \E i \in Ids :
        /\ process[i] # << >>
        /\ tasks[i].started # << >>
        /\ tasks[i].started[1].arguments = <<"a b", "; rm -rf /">>

\* ------------------------------------------- properties of one handler step
\* The server takes the request at the head of its stdin in this step.
Received == inbound # << >> /\ inbound' = Tail(inbound) /\ stolen' = stolen

\* The request taken, and its arguments.
Request == Head(inbound)

\* The handler of the request taken returns in this same step, and what it returns.
AnsweredNow ==
    /\ Len(responses') = Len(responses) + 1
    /\ responses'[Len(responses')].id = Request.id

Answer == responses'[Len(responses')].content

\* The registry is loaded and has no script of that name.
NotRegistered(script_name) ==
    _config # << >> /\ script_name \notin DOMAIN _config[1].scripts

MissingParam(call) ==
    \/ call.name \in {"run_script", "get_script_info"} /\ call.script_name = ""
    \/ call.name = "set_working_directory" /\ call.path = ""

\* C12: a request that omits a required parameter is answered with an InvalidParams
\* error response, not with a text, and changes nothing in the server.
C12_MissingParamIsInvalidParams ==
    [][Received /\ MissingParam(Request.call) =>
           /\ AnsweredNow
           /\ Answer.type = "error"
           /\ Answer.msg = "InvalidParams"
           /\ process' = process
           /\ _config' = _config
           /\ cfgFile' = cfgFile]_vars

\* C13: a call that names none of the six operations is answered with a
\* MethodNotFound error response and touches neither the registry, the default
\* directory nor any process.
C13_UnknownOperationIsMethodNotFound ==
    [][Received /\ Request.call.name \notin Operations =>
           /\ AnsweredNow
           /\ Answer.type = "error"
           /\ Answer.msg = "MethodNotFound"
           /\ process' = process
           /\ _config' = _config
           /\ cfgFile' = cfgFile]_vars

\* The responses that report a successful set_working_directory, and the last one.
SetAnswers ==
    {k \in 1..Len(responses) : responses[k].content.msg = "Working directory set to:"}

LastSetAt == CHOOSE k \in SetAnswers : \A j \in SetAnswers : j <= k

\* C14: once set_working_directory(p) has succeeded, and until it succeeds again,
\* get_working_directory returns p (every answer given since, and the answer a call
\* made now would get) and every run_script begun since, of a script with no
\* working_directory of its own, runs in p, whatever else was called in between.
C14_OverrideLastsUntilNextSet ==
    SetAnswers # {} =>
        LET p == responses[LastSetAt].content.working_dir
            r == config(_config, cfgFile)
        IN
        /\ ~r.raised /\ r._config[1].working_directory = p
        /\ \A k \in 1..Len(responses) :
              k > LastSetAt /\ responses[k].content.msg = "Current working directory:" =>
                  responses[k].content.working_dir = p
        /\ \A i \in Ids :
              /\ i > responses[LastSetAt].id
              /\ tasks[i].started # << >>
              /\ tasks[i].started[1].script_config.working_directory = ""
              /\ process[i] # << >>
              => process[i][1].cwd = resolve(p)

\* C15: set_working_directory with a path that does not exist is answered with a
\* normal text response naming the error and leaves the default working directory
\* as it was, so that a following get_working_directory returns the previous value.
C15_BadPathLeavesDirectory ==
    [][Received /\ Request.call.name = "set_working_directory"
         /\ Request.call.path # "" /\ Request.call.path \notin ExistingPaths =>
           /\ AnsweredNow
           /\ Answer.type = "text"
           /\ Answer.msg = "Error: Directory does not exist:"
           /\ _config' = _config
           /\ cfgFile' = cfgFile
           /\ process' = process]_vars

\* C15, its case: a set_working_directory was refused for its path, and the
\* get_working_directory that followed returned the directory of before.
C15_Witness ==
    /\ Len(responses) = 2
    /\ responses[1].content.msg = "Error: Directory does not exist:"
    /\ responses[2].content.msg = "Current working directory:"
    /\ _config # << >>
    /\ responses[2].content.working_dir = _config[1].working_directory

\* The responses that report a reload whose load failed.
FailedReloads ==
    {k \in 1..Len(responses) :
        responses[k].content.msg = "Error reloading configuration:"}

\* C16: a reload_config whose load fails is answered with a normal text response
\* that describes the error, and afterwards the server still takes the next request
\* off its stdin.
C16_FailedReloadIsNormalResponse ==
    /\ [][Received /\ Request.call.name = "reload_config"
            /\ reload_config(_config, cfgFile).raised =>
              /\ AnsweredNow
              /\ Answer.type = "text"
              /\ Answer.msg = "Error reloading configuration:"
              /\ Answer.exc # ""]_vars
    /\ [](FailedReloads # {} /\ inbound # << >> => ENABLED Receive)

\* C16, its case: a reload failed, and the request after it was answered.
C16_Witness ==
    /\ Len(responses) = 2
    /\ responses[1].content.msg = "Error reloading configuration:"
    /\ responses[1].content.type = "text"
    /\ responses[2].id = 2

\* C17: list_scripts on an empty registry answers that no scripts are configured,
\* as a normal response; on a registry of N scripts it answers with exactly N
\* blocks, one per registered name, each holding that script's name, description,
\* path, arguments and timeout.
C17_ListHasOneBlockPerScript ==
    [][Received /\ Request.call.name = "list_scripts"
         /\ ~config(_config, cfgFile).raised =>
           LET scripts == config(_config, cfgFile)._config[1].scripts IN
           /\ AnsweredNow
           /\ Answer.type = "text"
           /\ DOMAIN scripts = {} => Answer.msg = "No scripts configured"
           /\ DOMAIN scripts # {} =>
                 /\ Answer.msg = "Available Scripts:"
                 /\ Cardinality(Answer.blocks) = Cardinality(DOMAIN scripts)
                 /\ {b.key : b \in Answer.blocks} = DOMAIN scripts
                 /\ \A b \in Answer.blocks :
                       /\ b.name = scripts[b.key].name
                       /\ b.description = scripts[b.key].description
                       /\ b.path = scripts[b.key].path
                       /\ b.arguments = scripts[b.key].arguments
                       /\ b.timeout = scripts[b.key].timeout]_vars

\* C17, its case: a registry of several scripts was listed.
C17_Witness ==
    \E k \in 1..Len(responses) :
        /\ responses[k].content.msg = "Available Scripts:"
        /\ Cardinality(responses[k].content.blocks) = 4

\* C17, its other case: an empty registry was listed.
C17_EmptyListed ==
    \E k \in 1..Len(responses) : responses[k].content.msg = "No scripts configured"

\* The run of request i has returned, its child having ended by itself before the
\* timer of wait_for fired.
CompletedInTime(i) ==
    /\ tasks[i].pc = "done"
    /\ ~tasks[i].fired
    /\ process[i] # << >>
    /\ process[i][1].state = "exited"

\* C18: in every ExecutionResult success is true exactly when exit_code is 0, and a
\* registered script whose child exits with status 0 within its timeout yields
\* exit_code 0 and success true.
C18_SuccessIffExitZero ==
    /\ \A k \in 1..Len(responses) :
          IsResult(responses[k].content) =>
              (responses[k].content.success <=> responses[k].content.exit_code = 0)
    /\ \A i \in Ids :
          CompletedInTime(i) /\ process[i][1].returncode = 0 =>
              /\ ContentsFor(i) # {}
              /\ \A c \in ContentsFor(i) : IsResult(c) /\ c.exit_code = 0 /\ c.success

\* C19: when the child completes before the timeout, the result's exit_code is the
\* child's exit status and its stdout and stderr are what the child wrote.
C19_ExitCodeIsChildStatus ==
    \A i \in Ids :
        CompletedInTime(i) =>
            /\ ContentsFor(i) # {}
            /\ \A c \in ContentsFor(i) :
                  /\ IsResult(c)
                  /\ c.exit_code = process[i][1].returncode
                  /\ c.stderr.kind = "captured"
                  /\ ~DecodeRaises(process[i][1].out.stdout) =>
                        c.stdout = decode(process[i][1].out.stdout)
                  /\ ~DecodeRaises(process[i][1].out.stderr) =>
                        c.stderr.text = decode(process[i][1].out.stderr)

\* The spawn of request i's run raised: its directory resolves but cannot be entered.
SpawnFailed(i) ==
    /\ tasks[i].started # << >>
    /\ LET b == tasks[i].started[1]
           dir == IF b.script_config.working_directory # ""
                  THEN b.script_config.working_directory ELSE b.default
       IN Resolves(dir) /\ ~CwdUsable(resolve(dir))

\* C20: when spawning the child fails, the run is answered with a result of
\* exit_code 1 and success false whose stderr carries the error; no exception
\* leaves the executor.
C20_SpawnFailureIsExitOne ==
    \A i \in Ids :
        SpawnFailed(i) =>
            /\ process[i] = << >>
            /\ ContentsFor(i) # {}
            /\ \A c \in ContentsFor(i) :
                  /\ IsResult(c)
                  /\ c.type = "text"
                  /\ c.exit_code = 1
                  /\ ~c.success
                  /\ c.stderr.kind = "error" /\ c.stderr.exc # ""
                  /\ c.exc = ""

\* C20, its case: a run whose working directory is gone was answered.
C20_Witness ==
    \E i \in Ids : SpawnFailed(i) /\ tasks[i].pc = "done" /\ CountFor(i) = 1

\* A configuration file that names a script path or a default working directory
\* that does not exist.
InvalidFile(f) ==
    /\ f.kind = "json"
    /\ \/ f.data.working_directory \notin ExistingPaths
       \/ \E k \in DOMAIN f.data.scripts : f.data.scripts[k].path \notin ExistingPaths

\* The request taken makes the server load the configuration file.
Loads ==
    /\ Received
    /\ \/ Request.call.name = "reload_config"
       \/ Request.call.name = "list_scripts" /\ _config = << >>

\* C22: validation is atomic at load time.  A load of a configuration in which a
\* script's path or the default working directory does not exist fails with an
\* error and leaves none of its specs visible; every spec a lookup can see, and the
\* default directory, passed the existence check.
C22_ValidationIsAtomic ==
    /\ [][Loads /\ InvalidFile(cfgFile) =>
              /\ AnsweredNow
              /\ Answer.exc = "ValueError"
              /\ _config' = << >>]_vars
    /\ [](_config # << >> =>
              /\ \A k \in DOMAIN _config[1].scripts :
                     _config[1].scripts[k].path \in ExistingPaths
              /\ _config[1].working_directory \in ExistingPaths)

\* C22, its case: the reload of a file with one good and one missing script path
\* was refused, and no script is visible.
C22_Witness ==
    /\ cfgFile = FileBadPath
    /\ _config = << >>
    /\ FailedReloads # {}

\* The names a caller may ask for.
Names == {"hello", "slow", "loop", "gone", "missing", "nope"}

\* What lookups see: the scripts of the loaded configuration, or of the one a
\* lookup would load; none when that load raises.
Visible(cur, file) ==
    IF config(cur, file).raised THEN << >> ELSE <<config(cur, file)._config[1].scripts>>

C24_OnlyReloadChangesScripts ==
    [][ScriptsOf(_config') # ScriptsOf(_config) =>
           Received /\ Request.call.name = "reload_config"]_vars

\* C25: on timeout the executor first sends the child a termination signal and
\* kills it by force only afterwards: a forced kill is never the first signal a
\* child is sent.
C25_TerminateBeforeKill ==
    \A i \in Ids :
        process[i] # << >> /\ process[i][1].signals # << >> =>
            process[i][1].signals[1] = "SIGTERM"

C27_UndecodableOutputIsReplaced ==
    \A i \in Ids :
        /\ CompletedInTime(i)
        /\ \/ DecodeRaises(process[i][1].out.stdout)
           \/ DecodeRaises(process[i][1].out.stderr)
        => \A c \in ContentsFor(i) :
              /\ IsResult(c)
              /\ c.exit_code = process[i][1].returncode
              /\ c.success <=> process[i][1].returncode = 0
              /\ c.stderr.kind = "captured"

\* The paths that are absolute.
IsAbsolute(p) ==
    p \notin {"", ".", "./scripts/hello.sh", "./scripts/slow.sh", "./scripts/missing.sh"}

\* C28: the working directory of an execution is the spec's own when it has one,
\* otherwise the registry's default as it is when the execution starts, and it is
\* made absolute before the child is spawned.
C28_EffectiveWorkingDirectory ==
    [][\A i \in Ids :
          process[i] = << >> /\ process'[i] # << >> =>
              LET c == config(_config, cfgFile)._config[1]
                  spec == c.scripts[Request.call.script_name]
              IN
              /\ Received /\ Request.id = i /\ Request.call.name = "run_script"
              /\ spec.working_directory # "" =>
                     process'[i][1].cwd = resolve(spec.working_directory)
              /\ spec.working_directory = "" =>
                     process'[i][1].cwd = resolve(c.working_directory)
              /\ IsAbsolute(process'[i][1].cwd)]_vars

\* C28, its case: a child was spawned in its spec's own directory, which is not
\* the registry's default.
C28_Witness ==
    /\ _config # << >>
    /\ \E i \in Ids :
          /\ process[i] # << >>
          /\ tasks[i].started[1].script_config.working_directory = "."
          /\ tasks[i].started[1].default = "/work"
          /\ process[i][1].cwd = ServerCwd

\* C28, its other case: a child was spawned in the default directory that a
\* set_working_directory had put in place.
C28_DefaultUsed ==
    \E i \in Ids :
        /\ process[i] # << >>
        /\ tasks[i].started[1].script_config.working_directory = ""
        /\ SetAnswers # {}
        /\ process[i][1].cwd = "/work"

\* C29: every spec visible to lookups has a positive timeout, so that no execution
\* is started with a timeout of zero or less.
C29_TimeoutIsPositive ==
    /\ \A i \in Ids :
          tasks[i].started # << >> => tasks[i].started[1].script_config.timeout > 0
    /\ _config # << >> =>
          \A k \in DOMAIN _config[1].scripts : _config[1].scripts[k].timeout > 0

\* ------------------------------------------------ properties of a connection
\* The server reads the line at the head of its stdin in this step.
ServerReads == toServer # << >> /\ toServer' = Tail(toServer)

\* The caller writes the initialized notification in this step.
WritesInitialized ==
    /\ Len(toServer') = Len(toServer) + 1
    /\ toServer'[Len(toServer')] = NotificationLine("notifications/initialized")

C21_ClientConnected ==
    /\ client.program = "MCPClient"
    /\ client.pc = "call_wait"
    /\ client.waiting \in history.accepted

\* C21, the client's other case: the wait for the initialize response timed out,
\* and the response came afterwards.
C21_ClientGaveUp ==
    /\ client.program = "MCPClient"
    /\ client.pc = "failed"
    /\ toClient # << >>

\* C30: the ids of the requests written on a connection are 1, 2, 3, ... in the
\* order written, one more per request, so that none is used twice; writing a
\* notification takes no id.
C30_RequestIdsCountUpFromOne ==
    /\ [](/\ Len(history.sent) = request_id
          /\ \A k \in 1..Len(history.sent) : history.sent[k] = k)
    /\ [][WritesInitialized =>
              request_id' = request_id /\ history'.sent = history.sent]_vars

\* C30, its case: MCPClient wrote its initialize request, the initialized
\* notification and two tool requests.
C30_Witness ==
    /\ client.program = "MCPClient"
    /\ session = "Ready"
    /\ history.sent = <<1, 2, 3>>


\* ------------------------------------------- properties of the stored file
\* What a freshly started server would hold after main's load_config of `file`.
FreshStart(file) == load_config(<< >>, file)._config

\* C31: set_working_directory never writes to the configuration file: the call
\* leaves the file with the content it had, so that a freshly started server sees
\* the stored default and not the override.
C31_SetDoesNotTouchStorage ==
    [][Received /\ Request.call.name = "set_working_directory" =>
           /\ cfgFile' = cfgFile
           /\ FreshStart(cfgFile') = FreshStart(cfgFile)]_vars

\* C31 while a registry is loaded: the same, for the calls made with a loaded
\* registry.
C31_SetWithLoadedRegistry ==
    [][Received /\ Request.call.name = "set_working_directory" /\ _config # << >> =>
           /\ cfgFile' = cfgFile
           /\ FreshStart(cfgFile') = FreshStart(cfgFile)]_vars

\* C32: a reload_config whose load fails leaves the registry as it was: the scripts
\* and the default directory that list_scripts, get_script_info,
\* get_working_directory and run_script answer from are those of before the reload.
C32_FailedReloadKeepsRegistry ==
    [][Received /\ Request.call.name = "reload_config"
         /\ reload_config(_config, cfgFile).raised =>
           /\ _config' = _config
           /\ config(_config', cfgFile') = config(_config, cfgFile)]_vars


\* C33: the response send_request returns for a request carries that request's id:
\* whatever requests came before, timed out or not, a call never returns the late
\* response of an earlier request as its own.
C33_ResponseCarriesRequestId ==
    \A r \in history.returned : r.response # 0 => r.response = r.request


\* ------------------------------------------------ properties of the children
\* C34: whenever the executor has returned an ExecutionResult for a run whose
\* child was spawned (normal completion, timeout, or an error after the spawn), that
\* child has exited: no such run leaves a running child behind.
C34_NoChildLeftRunning ==
    \A i \in Ids :
        process[i] # << >> /\ (\E c \in ContentsFor(i) : IsResult(c)) =>
            /\ tasks[i].pc = "done"
            /\ process[i][1].state \in {"exited", "reaped"}

\* C34, its case: two runs were answered with a result, one whose child was killed
\* on timeout and has been reaped, one whose child ended by itself.
C34_Witness ==
    \E i, j \in Ids :
        /\ \E c \in ContentsFor(i) : IsResult(c) /\ c.stderr.kind = "timed_out"
        /\ process[i] # << >> /\ process[i][1].signals = <<"SIGKILL">>
        /\ process[i][1].state = "reaped"
        /\ \E c \in ContentsFor(j) : IsResult(c) /\ c.stderr.kind # "timed_out"
        /\ process[j] # << >> /\ process[j][1].state = "exited"


\* C35: an execution reads the default working directory once, before its child is
\* spawned.  The directory of a child never changes afterwards, a
\* set_working_directory leaves every run in flight as it is, and a run that starts
\* without a directory of its own runs in the default as it is at that moment, which
\* after a completed set_working_directory is the new directory.
C35_DirectoryReadOnceAtStart ==
    /\ [][\A i \in Ids : process[i] # << >> =>
              /\ process'[i] # << >>
              /\ process'[i][1].cwd = process[i][1].cwd
              /\ tasks'[i].started = tasks[i].started]_vars
    /\ [][Received /\ Request.call.name = "set_working_directory" =>
              process' = process]_vars
    /\ [][\A i \in Ids : process[i] = << >> /\ process'[i] # << >> =>
              LET b == tasks'[i].started[1] IN
              /\ Received /\ Request.id = i
              /\ b.default = config(_config, cfgFile)._config[1].working_directory
              /\ b.script_config.working_directory = "" =>
                     process'[i][1].cwd = resolve(b.default)]_vars

\* C35, its case: a set_working_directory to /work completed while the run of
\* request 1 was in flight, and that run's child is still in the directory it
\* started in.
C35_Witness ==
    /\ tasks[1].pc = "wait_for"
    /\ tasks[1].started[1].script_config.working_directory = ""
    /\ process[1][1].cwd = ServerCwd
    /\ Len(responses) = 1
    /\ responses[1].content.msg = "Working directory set to:"
    /\ _config # << >> /\ _config[1].working_directory = "/work"

\* C35, its other case: the run of request 2 started after the
\* set_working_directory of request 1 had completed, and runs in the new directory.
C35_RunAfterSet ==
    /\ Len(responses) >= 1
    /\ responses[1].id = 1
    /\ responses[1].content.msg = "Working directory set to:"
    /\ process[2] # << >>
    /\ tasks[2].started[1].default = "/work"
    /\ process[2][1].cwd = "/work"


\* C36: after every load_config or reload_config that succeeds, the in-memory
\* configuration equals the one the file holds at that moment, also when the file
\* did not exist and the default was created: a reload made right after, the file
\* untouched, yields the same scripts.
C36_LoadEqualsStorage ==
    [][Loads /\ ~load_config(<< >>, cfgFile).raised =>
           /\ cfgFile'.kind = "json"
           /\ _config' = <<cfgFile'.data>>
           /\ ~reload_config(_config', cfgFile').raised
           /\ ScriptsOf(reload_config(_config', cfgFile')._config) = ScriptsOf(_config')]_vars

\* C36 for a file that exists: the same, for the loads that find the file.
C36_LoadOfExistingFile ==
    [][Loads /\ ~load_config(<< >>, cfgFile).raised /\ cfgFile.kind # "absent" =>
           /\ cfgFile' = cfgFile
           /\ _config' = <<cfgFile'.data>>
           /\ ~reload_config(_config', cfgFile').raised
           /\ ScriptsOf(reload_config(_config', cfgFile')._config) = ScriptsOf(_config')]_vars


\* ---------------------------------------------------- properties of the names
\* C37: the key a script is registered under equals the name field of its spec, so
\* that the script_name of an ExecutionResult and the names shown by list_scripts
\* and get_script_info are names under which the script is looked up and run.
C37_KeyEqualsName ==
    /\ _config # << >> =>
          \A k \in DOMAIN _config[1].scripts : _config[1].scripts[k].name = k
    /\ \A k \in 1..Len(responses) :
          LET c == responses[k].content IN
          /\ c.msg = "Available Scripts:" => \A b \in c.blocks : b.name = b.key
          /\ c.msg = "Script Information:" => c.info.name = c.requested
    /\ \A i \in Ids : \A c \in ContentsFor(i) :
          IsResult(c) /\ tasks[i].started # << >> =>
              c.script_name = tasks[i].started[1].script_name


\* The operations that only read.
ReadOnly == {"list_scripts", "get_script_info", "get_working_directory", "run_script"}

\* The file is edited from outside in this step.
Edited == edits' = edits + 1

\* C38: list_scripts, get_script_info, get_working_directory and run_script never
\* write to the configuration file: whatever came before, the step of such a call,
\* and every later step of a run, leaves the file with the content it had, or
\* absent if it was absent.
C38_ReadOnlyOperationsDoNotWrite ==
    /\ [][Received /\ Request.call.name \in ReadOnly => cfgFile' = cfgFile]_vars
    /\ [][~Received /\ ~Edited => cfgFile' = cfgFile]_vars

\* C38 while a registry is loaded: the same, for the calls made with a loaded
\* registry.
C38_ReadOnlyWithLoadedRegistry ==
    /\ [][Received /\ Request.call.name \in ReadOnly /\ _config # << >> =>
              cfgFile' = cfgFile]_vars
    /\ [][~Received /\ ~Edited => cfgFile' = cfgFile]_vars


\* ------------------------------------------------- properties of the manager
\* The signals stop_server has sent: SIGTERM first, SIGKILL only after it and only
\* after every poll of the grace period found the server running.
SignalOrder ==
    /\ manager.signals \in {<< >>, <<"SIGTERM">>, <<"SIGTERM", "SIGKILL">>}
    /\ manager.signals = <<"SIGTERM", "SIGKILL">> => manager.polls = GracePolls

\* A stop_server has returned true.
Stopped == manager.op = "stop" /\ manager.returned = <<TRUE>>

\* C39: stop_server sends SIGTERM first and SIGKILL only if the server is still
\* running after the grace period of polls, and whenever stop_server has returned
\* true the PID file is absent.
C39_StopServer ==
    /\ SignalOrder
    /\ Stopped => pid_file = "absent"

\* C39, the order of the signals alone, with the step that sends SIGKILL: it is
\* taken only on a server that was found running after the last poll.
C39_TermBeforeKill ==
    /\ []SignalOrder
    /\ [][Len(manager'.signals) = Len(manager.signals) + 1 /\ manager.signals # << >> =>
              /\ manager.pc = "sigkill"
              /\ manager.polls = GracePolls
              /\ Alive(managed)]_vars

\* C39, the PID file alone, when the file could be read at the start of the
\* command or was absent.
C39_PidFileGoneIfReadable ==
    Stopped /\ pid_file # "unreadable" => pid_file = "absent"

=============================================================================
